---- MODULE Spec2Model ----
(***************************************************************************)
(* Model of the CRM's access-control, scoping and lifecycle core:          *)
(* app/models/user.py, app/utils/access_control.py,                        *)
(* app/utils/query_filters.py, app/models/opportunity.py and the routes    *)
(* of app/blueprints/opportunities.py and app/blueprints/targets.py.       *)
(*                                                                         *)
(* Tables are functions from primary key to row.  A foreign key that is    *)
(* NULL is 0.  current_user is flask-login's ambient subject: a user id,   *)
(* or Anonymous.                                                           *)
(***************************************************************************)
EXTENDS Integers, Sequences, FiniteSets, TLC

VARIABLES org_units, users, current_user, customers, opportunities, tasks,
          targets, achievements, audit_logs, response, now, in_flight

vars == <<org_units, users, current_user, customers, opportunities, tasks,
          targets, achievements, audit_logs, response, now, in_flight>>

-----------------------------------------------------------------------------
(* Bounds of the model *)

MaxUnit == 3
MaxUser == 3
\* rows of audit_logs: an audited request is taken while the table is shorter
MaxAudit == 3
\* rows of opportunities and of targets
MaxOpp == 3
MaxTarget == 2
MaxNow == 3

(* AccessLevel values *)
EXECUTIVE == 1
REGIONAL == 2
BRANCH == 3
INDIVIDUAL == 4

AccessLevel == {EXECUTIVE, REGIONAL, BRANCH, INDIVIDUAL}

NULL == 0
Anonymous == 0
\* Python's None in a nullable numeric column
None == -1

UnitIds == 1..MaxUnit
\* an organizational_unit_id that has no row in organizational_units
AbsentUnit == MaxUnit + 1
UserIds == 1..MaxUser

Allow == "Allow"
Deny == "Deny"

Verdict(b) == IF b THEN Allow ELSE Deny

-----------------------------------------------------------------------------
(* Helpers *)

Range(s) == {s[i] : i \in DOMAIN s}

Min(S) == CHOOSE x \in S : \A y \in S : x <= y

RECURSIVE SetToSeq(_)
\* the elements of a finite set of integers, in ascending order
SetToSeq(S) == IF S = {} THEN <<>> ELSE <<Min(S)>> \o SetToSeq(S \ {Min(S)})

-----------------------------------------------------------------------------
(* OrganizationalUnit *)

\* backref 'children': the units whose parent_id is this unit's id
children(unit) == {c \in DOMAIN org_units : org_units[c].parent_id = unit}

RECURSIVE ChildrenWalk(_)
\* the loop of get_all_children over a list of children
ChildrenWalk(cs) ==
    IF cs = <<>> THEN <<>>
    ELSE <<Head(cs)>> \o ChildrenWalk(SetToSeq(children(Head(cs)))) \o ChildrenWalk(Tail(cs))

get_all_children_direct(unit) == SetToSeq(children(unit))

get_all_children(unit) == ChildrenWalk(SetToSeq(children(unit)))

get_hierarchy_path_self(unit) == <<unit>>

RECURSIVE get_hierarchy_path(_)
get_hierarchy_path(unit) ==
    LET p == org_units[unit].parent_id
    IN IF p = NULL \/ p \notin DOMAIN org_units THEN <<unit>>
       ELSE get_hierarchy_path(p) \o <<unit>>

-----------------------------------------------------------------------------
(* User *)

is_authenticated(cu) == cu # Anonymous

can_access_organizational_unit_noexec(cu, org_unit_id) ==
    IF users[cu].organizational_unit_id = org_unit_id THEN TRUE
    ELSE IF users[cu].access_level \in {REGIONAL, BRANCH}
              /\ org_unit_id \in DOMAIN org_units
         THEN org_unit_id \in Range(get_all_children(users[cu].organizational_unit_id))
         ELSE FALSE

can_access_organizational_unit(cu, org_unit_id) ==
    IF users[cu].access_level = EXECUTIVE THEN TRUE
    ELSE IF users[cu].organizational_unit_id = org_unit_id THEN TRUE
    ELSE IF users[cu].access_level \in {REGIONAL, BRANCH}
              /\ org_unit_id \in DOMAIN org_units
         THEN org_unit_id \in Range(get_all_children(users[cu].organizational_unit_id))
         ELSE FALSE

\* the ids of the units of get_accessible_organizational_units
get_accessible_organizational_units(cu) ==
    IF users[cu].access_level = EXECUTIVE THEN SetToSeq(DOMAIN org_units)
    ELSE <<users[cu].organizational_unit_id>>
         \o (IF users[cu].access_level \in {REGIONAL, BRANCH}
             THEN get_all_children(users[cu].organizational_unit_id)
             ELSE <<>>)

can_access_customer(cu, customer) ==
    IF users[cu].access_level = INDIVIDUAL
    THEN customer.owner_id = cu
    ELSE can_access_organizational_unit(cu, customer.organizational_unit_id)

-----------------------------------------------------------------------------
(* AccessControl *)

can_view_customer(cu, customer) ==
    IF ~is_authenticated(cu) THEN Deny
    ELSE Verdict(can_access_customer(cu, customer))

can_edit_customer(cu, customer) ==
    IF ~is_authenticated(cu) THEN Deny
    ELSE IF users[cu].access_level = INDIVIDUAL
         THEN Verdict(customer.owner_id = cu)
         ELSE Verdict(can_access_organizational_unit(cu, customer.organizational_unit_id))

can_delete_customer_nolevel(cu, customer) ==
    IF ~is_authenticated(cu) THEN Deny
    ELSE Verdict(can_access_organizational_unit(cu, customer.organizational_unit_id))

can_delete_customer(cu, customer) ==
    IF ~is_authenticated(cu) THEN Deny
    ELSE IF users[cu].access_level = INDIVIDUAL THEN Deny
    ELSE Verdict(can_access_organizational_unit(cu, customer.organizational_unit_id))

can_reassign_customer(cu, customer) ==
    IF ~is_authenticated(cu) THEN Deny
    ELSE IF users[cu].access_level = INDIVIDUAL THEN Deny
    ELSE Verdict(can_access_organizational_unit(cu, customer.organizational_unit_id))

\* opportunity.customer: the row the customer_id foreign key refers to
customer_of(opportunity) == customers[opportunity.customer_id]

can_view_opportunity(cu, opportunity) ==
    IF ~is_authenticated(cu) THEN Deny
    ELSE Verdict(can_access_customer(cu, customer_of(opportunity)))

can_view_sensitive_data(cu) ==
    IF ~is_authenticated(cu) THEN Deny
    ELSE Verdict(users[cu].access_level <= BRANCH)

can_approve_opportunity(cu, opportunity) ==
    IF ~is_authenticated(cu) THEN Deny
    ELSE IF users[cu].access_level > BRANCH THEN Deny
    ELSE Verdict(can_access_organizational_unit(cu, opportunity.organizational_unit_id))

can_set_targets(cu) ==
    IF ~is_authenticated(cu) THEN Deny
    ELSE Verdict(users[cu].access_level <= BRANCH)

can_view_analytics(cu) ==
    IF ~is_authenticated(cu) THEN Deny
    ELSE Verdict(users[cu].access_level <= BRANCH)

\* unit.users.all(): the users whose organizational_unit_id is the unit
users_of_unit(unit) == {u \in DOMAIN users : users[u].organizational_unit_id = unit}

RECURSIVE UsersOfUnits(_)
\* user_ids.extend([u.id for u in unit.users.all()]) over the accessible units
UsersOfUnits(unit_seq) ==
    IF unit_seq = <<>> THEN <<>>
    ELSE SetToSeq(users_of_unit(Head(unit_seq))) \o UsersOfUnits(Tail(unit_seq))

get_accessible_user_ids(cu) ==
    IF ~is_authenticated(cu) THEN <<>>
    ELSE IF users[cu].access_level = EXECUTIVE THEN SetToSeq(DOMAIN users)
    ELSE UsersOfUnits(get_accessible_organizational_units(cu))

-----------------------------------------------------------------------------
(* query_filters *)

Table(model) ==
    CASE model = "Customer" -> customers
      [] model = "Opportunity" -> opportunities
      [] model = "Task" -> tasks
      [] model = "Target" -> targets

\* hasattr(model, column)
hasattr(model, column) ==
    CASE model = "Customer" -> column \in {"owner_id", "organizational_unit_id"}
      [] model = "Opportunity" -> column \in {"owner_id", "organizational_unit_id"}
      [] model = "Task" -> FALSE
      [] model = "Target" -> column \in {"organizational_unit_id"}

\* query.filter(model.id == None): the primary key is never NULL
EmptyQuery(model) == {r \in DOMAIN Table(model) : r = NULL}

UnitFilter(cu, model) ==
    {r \in DOMAIN Table(model) :
        Table(model)[r].organizational_unit_id
            \in Range(get_accessible_organizational_units(cu))}

apply_access_filter_byunit(cu, model) ==
    IF ~is_authenticated(cu) THEN EmptyQuery(model)
    ELSE IF users[cu].access_level = EXECUTIVE THEN DOMAIN Table(model)
    ELSE IF hasattr(model, "organizational_unit_id") THEN UnitFilter(cu, model)
    ELSE DOMAIN Table(model)

apply_access_filter_unfiltered(cu, model) ==
    IF ~is_authenticated(cu) THEN DOMAIN Table(model)
    ELSE IF users[cu].access_level = EXECUTIVE THEN DOMAIN Table(model)
    ELSE IF users[cu].access_level = INDIVIDUAL
         THEN {r \in DOMAIN Table(model) : Table(model)[r].owner_id = cu}
    ELSE UnitFilter(cu, model)

\* the ids of the rows the filtered query of apply_access_filter returns
apply_access_filter(cu, model) ==
    IF ~is_authenticated(cu) THEN EmptyQuery(model)
    ELSE IF users[cu].access_level = EXECUTIVE THEN DOMAIN Table(model)
    ELSE IF users[cu].access_level = INDIVIDUAL
         THEN IF hasattr(model, "owner_id")
              THEN {r \in DOMAIN Table(model) : Table(model)[r].owner_id = cu}
              ELSE IF hasattr(model, "organizational_unit_id")
                   THEN UnitFilter(cu, model)
                   ELSE DOMAIN Table(model)
    ELSE IF hasattr(model, "organizational_unit_id") THEN UnitFilter(cu, model)
    ELSE DOMAIN Table(model)

apply_customer_filter(cu) == apply_access_filter(cu, "Customer")

apply_opportunity_filter(cu) == apply_access_filter(cu, "Opportunity")

apply_task_filter_assignee(cu) ==
    IF ~is_authenticated(cu) THEN EmptyQuery("Task")
    ELSE IF users[cu].access_level = EXECUTIVE THEN DOMAIN tasks
    ELSE IF users[cu].access_level = INDIVIDUAL
         THEN {t \in DOMAIN tasks : tasks[t].assigned_to_id = cu}
    ELSE LET accessible_user_ids ==
                 Range(UsersOfUnits(get_accessible_organizational_units(cu)))
         IN {t \in DOMAIN tasks : tasks[t].assigned_to_id \in accessible_user_ids}

apply_task_filter(cu) ==
    IF ~is_authenticated(cu) THEN EmptyQuery("Task")
    ELSE IF users[cu].access_level = EXECUTIVE THEN DOMAIN tasks
    ELSE IF users[cu].access_level = INDIVIDUAL
         THEN {t \in DOMAIN tasks :
                  \/ tasks[t].assigned_to_id = cu
                  \/ tasks[t].assigned_by_id = cu}
    ELSE LET accessible_user_ids ==
                 Range(UsersOfUnits(get_accessible_organizational_units(cu)))
         IN {t \in DOMAIN tasks :
                \/ tasks[t].assigned_to_id \in accessible_user_ids
                \/ tasks[t].assigned_by_id \in accessible_user_ids}

-----------------------------------------------------------------------------
(* Rows *)

IDENTIFICATION == "IDENTIFICATION"
QUALIFICATION == "QUALIFICATION"
PROPOSAL == "PROPOSAL"
NEGOTIATION == "NEGOTIATION"
CLOSING == "CLOSING"
WON == "WON"
LOST == "LOST"
POST_SALE == "POST_SALE"

OpportunityStage ==
    {IDENTIFICATION, QUALIFICATION, PROPOSAL, NEGOTIATION, CLOSING, WON, LOST, POST_SALE}

\* a customers row: the ownership columns and the stage
CustomerRow(owner_id, unit_id) ==
    [owner_id |-> owner_id, organizational_unit_id |-> unit_id, stage |-> "SUSPECT",
     suspect_date |-> NULL, prospect_date |-> NULL, lead_date |-> NULL,
     customer_date |-> NULL]

\* an opportunities row with the column defaults of the model
OpportunityRow(customer_id, owner_id, unit_id, amount, probability) ==
    [customer_id |-> customer_id, owner_id |-> owner_id,
     organizational_unit_id |-> unit_id,
     stage |-> IDENTIFICATION, amount |-> amount, probability |-> probability,
     expected_revenue |-> None, actual_revenue |-> None, is_active |-> TRUE,
     won_date |-> NULL, lost_date |-> NULL, actual_close_date |-> NULL,
     lost_reason |-> NULL]

\* a tasks row with the column defaults of the model
TaskRow(assigned_to_id, assigned_by_id) ==
    [assigned_to_id |-> assigned_to_id, assigned_by_id |-> assigned_by_id,
     status |-> "PENDING", due_date |-> NULL, is_overdue |-> FALSE,
     completed_date |-> NULL, escalation_level |-> 0, escalated_to_id |-> NULL,
     escalation_date |-> NULL]

-----------------------------------------------------------------------------
(* Opportunity *)

\* Python truthiness of a number: None and 0 are false
Truthy(x) == x # None /\ x # 0

\* A Numeric column loads as decimal.Decimal; a value of a form field parsed
\* with type=float is a float.  An object in a request is its row and the
\* Python type its amount has at that moment.
Loaded(row) == [row |-> row, amount_type |-> "Decimal"]

\* the outcome of a method: the object as the method left it, and the name
\* of the exception it raised, "" when it returned
Returned(obj) == [obj |-> obj, raised |-> ""]
Raised(obj, exc) == [obj |-> obj, raised |-> exc]

\* amount * (probability / 100): Decimal * float raises TypeError.  Amounts
\* are multiples of 100, so the product is a whole number.
update_expected_revenue(o) ==
    IF Truthy(o.row.amount) /\ Truthy(o.row.probability)
    THEN IF o.amount_type = "Decimal"
         THEN Raised(o, "TypeError")
         ELSE Returned([o EXCEPT !.row.expected_revenue =
                                     (o.row.amount * o.row.probability) \div 100])
    ELSE Returned(o)

stage_probabilities ==
    [s \in {IDENTIFICATION, QUALIFICATION, PROPOSAL, NEGOTIATION, CLOSING, WON, LOST} |->
        CASE s = IDENTIFICATION -> 10
          [] s = QUALIFICATION -> 20
          [] s = PROPOSAL -> 40
          [] s = NEGOTIATION -> 60
          [] s = CLOSING -> 80
          [] s = WON -> 100
          [] s = LOST -> 0]

\* the assignments of advance_stage after the probability update
CloseFields(o, new_stage) ==
    IF new_stage = WON
    THEN [o EXCEPT !.row.is_active = FALSE, !.row.won_date = now,
                   !.row.actual_close_date = now,
                   !.row.actual_revenue = o.row.amount]
    ELSE IF new_stage = LOST
    THEN [o EXCEPT !.row.is_active = FALSE, !.row.lost_date = now,
                   !.row.actual_close_date = now]
    ELSE o

advance_stage(o, new_stage) ==
    LET o1 == [o EXCEPT !.row.stage = new_stage]
    IN IF new_stage \in DOMAIN stage_probabilities
       THEN LET o2 == [o1 EXCEPT !.row.probability = stage_probabilities[new_stage]]
                r == update_expected_revenue(o2)
            IN IF r.raised # "" THEN r
               ELSE Returned(CloseFields(r.obj, new_stage))
       ELSE Returned(CloseFields(o1, new_stage))

mark_won(o, actual_revenue) ==
    LET r == advance_stage(o, WON)
    IN IF r.raised # "" THEN r
       ELSE IF Truthy(actual_revenue)
            THEN Returned([r.obj EXCEPT !.row.actual_revenue = actual_revenue])
            ELSE r

mark_lost(o, reason) ==
    LET r == advance_stage(o, LOST)
    IN IF r.raised # "" THEN r
       ELSE Returned([r.obj EXCEPT !.row.lost_reason = reason])

-----------------------------------------------------------------------------
(* Target *)

REVENUE == "REVENUE"

\* achievement_percentage is a float: kept as the fraction num / den
Pct(num, den) == [num |-> num, den |-> den]
PctEq(p, q) == p.num * q.den = q.num * p.den

\* a targets row with the column defaults of the model
TargetRow(user_id, unit_id, target_value) ==
    [user_id |-> user_id, organizational_unit_id |-> unit_id,
     target_type |-> REVENUE, start_date |-> 1, end_date |-> 28,
     target_value |-> target_value, achieved_value |-> 0,
     achievement_percentage |-> Pct(0, 1), is_active |-> TRUE]

calculate_achievement(t) ==
    IF t.target_value > 0
    THEN [t EXCEPT !.achievement_percentage = Pct(t.achieved_value * 100, t.target_value)]
    ELSE [t EXCEPT !.achievement_percentage = Pct(0, 1)]

\* achieved_value += additional_value: the column loads as Decimal, and
\* Decimal + float and Decimal + None raise TypeError
update_achievement(t, additional_value, value_type) ==
    IF value_type # "Decimal"
    THEN [obj |-> t, raised |-> "TypeError"]
    ELSE [obj |-> calculate_achievement(
                      [t EXCEPT !.achieved_value = t.achieved_value + additional_value]),
          raised |-> ""]

-----------------------------------------------------------------------------
(* Customer *)

CustomerStage == {"SUSPECT", "PROSPECT", "LEAD", "CUSTOMER", "INACTIVE"}

\* Customer.advance_stage
customer_advance_stage(c, new_stage) ==
    LET c1 == [c EXCEPT !.stage = new_stage]
    IN IF new_stage = "PROSPECT" THEN [c1 EXCEPT !.prospect_date = now]
       ELSE IF new_stage = "LEAD" THEN [c1 EXCEPT !.lead_date = now]
       ELSE IF new_stage = "CUSTOMER" THEN [c1 EXCEPT !.customer_date = now]
       ELSE c1

-----------------------------------------------------------------------------
(* Task *)

TaskStatus == {"PENDING", "IN_PROGRESS", "COMPLETED", "CANCELLED", "OVERDUE"}

check_overdue_anystatus(t) ==
    IF t.due_date < now
    THEN [t EXCEPT !.is_overdue = TRUE, !.status = "OVERDUE"]
    ELSE t

check_overdue(t) ==
    IF t.status \notin {"COMPLETED", "CANCELLED"} /\ t.due_date < now
    THEN [t EXCEPT !.is_overdue = TRUE, !.status = "OVERDUE"]
    ELSE t

complete(t) ==
    [t EXCEPT !.status = "COMPLETED", !.completed_date = now, !.is_overdue = FALSE]

escalate_reopen(t, escalated_to_user_id) ==
    [t EXCEPT !.escalation_level = @ + 1,
              !.escalated_to_id = escalated_to_user_id,
              !.escalation_date = now,
              !.status = "PENDING"]

escalate(t, escalated_to_user_id) ==
    [t EXCEPT !.escalation_level = @ + 1,
              !.escalated_to_id = escalated_to_user_id,
              !.escalation_date = now]

-----------------------------------------------------------------------------
(* AuditLog and the responses of the routes *)

AuditLog(user, action, resource_type, resource_id, success, error_message) ==
    [user_id |-> user, action |-> action, resource_type |-> resource_type,
     resource_id |-> resource_id, success |-> success,
     error_message |-> error_message]

log_action_overwrite(user, action, resource_type, resource_id, success, error_message) ==
    audit_logs' =
        <<AuditLog(user, action, resource_type, resource_id, success, error_message)>>

\* AuditLog.log_action: add the entry and commit
log_action(user, action, resource_type, resource_id, success, error_message) ==
    audit_logs' = Append(audit_logs,
        AuditLog(user, action, resource_type, resource_id, success, error_message))

audit_action_success(action, resource_type, resource_id, success, error_message) ==
    log_action(current_user, action, resource_type, resource_id, TRUE, "")

audit_action_failed(action, resource_type, resource_id, success, error_message) ==
    log_action(current_user, action, resource_type, resource_id, FALSE, "Exception")

\* the finally block of audit_action, for the authenticated subject
audit_action(action, resource_type, resource_id, success, error_message) ==
    log_action(current_user, action, resource_type, resource_id, success, error_message)

CanAudit == Len(audit_logs) < MaxAudit

Respond(route, id, status) ==
    response' = [route |-> route, id |-> id, status |-> status]

-----------------------------------------------------------------------------
(* The subject of a request *)

\* flask-login's user_loader: the session's user id resolves to a users row,
\* or to no row, and the request is then anonymous
load_user(user_id) == IF user_id \in DOMAIN users THEN user_id ELSE Anonymous

LoadUser(user_id) ==
    /\ current_user' = load_user(user_id)
    /\ UNCHANGED <<in_flight, org_units, users, customers, opportunities, tasks, targets,
                   achievements, audit_logs, response, now>>

-----------------------------------------------------------------------------
(* Access specification: the tables are drawn from bounded sets and the    *)
(* checks of AccessControl and of query_filters are evaluated for the      *)
(* subject load_user establishes.                                          *)

\* parent_id is NULL or the id of a unit inserted earlier: a forest
OrgForests ==
    {f \in [UnitIds -> [parent_id : {NULL} \cup UnitIds]] :
        \A i \in UnitIds : f[i].parent_id < i}

NoResponse == [route |-> "none", id |-> NULL, status |-> "none"]

\* user 1 has any access level and any unit; the other users keep the column
\* default of access_level (INDIVIDUAL)
AccessUsers(other_units) ==
    {u \in [UserIds -> [access_level : AccessLevel, organizational_unit_id : UnitIds]] :
        \A i \in UserIds \ {1} :
            /\ u[i].access_level = INDIVIDUAL
            /\ u[i].organizational_unit_id \in other_units}

InitStatic ==
    /\ current_user = Anonymous
    /\ targets = <<>>
    /\ achievements = <<>>
    /\ audit_logs = <<>>
    /\ response = NoResponse
    /\ in_flight = <<>>
    /\ now = 1

\* one customer and one opportunity of that customer, each with any owner and
\* any unit, a unit without a row included
InitAccess ==
    /\ org_units \in OrgForests
    /\ users \in AccessUsers({1})
    /\ \E owner \in UserIds, unit \in UnitIds \cup {AbsentUnit} :
          customers = (1 :> CustomerRow(owner, unit))
    /\ \E owner \in UserIds, unit \in UnitIds \cup {AbsentUnit} :
          opportunities = (1 :> OpportunityRow(1, owner, unit, 100, 10))
    /\ tasks = (1 :> TaskRow(1, 1))
    /\ InitStatic

\* one task with any assignee and any assigner, the users in any units
InitTaskScope ==
    /\ org_units \in OrgForests
    /\ users \in AccessUsers(UnitIds)
    /\ customers = (1 :> CustomerRow(1, 1))
    /\ opportunities = (1 :> OpportunityRow(1, 1, 1, 100, 10))
    /\ \E to \in UserIds, by \in UserIds :
          tasks = (1 :> TaskRow(to, by))
    /\ InitStatic

NextAccess == \E user_id \in 1..(MaxUser + 1) : LoadUser(user_id)

SpecAccess == InitAccess /\ [][NextAccess]_vars

SpecTaskScope == InitTaskScope /\ [][NextAccess]_vars

-----------------------------------------------------------------------------
(* auth routes *)

\* login_required on an anonymous request: a redirect to the login page
LoginRequired ==
    /\ ~is_authenticated(current_user)
    /\ Respond("auth.login", NULL, "login_required")
    /\ UNCHANGED <<in_flight, org_units, users, current_user, customers, opportunities,
                   tasks, targets, achievements, audit_logs, now>>

\* POST /auth/login with the credentials of a user, or with wrong ones
Login(user_id, password_ok) ==
    /\ IF is_authenticated(current_user)
       THEN /\ Respond("auth.login", NULL, "redirect")
            /\ UNCHANGED <<current_user, audit_logs>>
       ELSE /\ CanAudit
            /\ IF user_id \notin DOMAIN users \/ ~password_ok
               THEN /\ log_action(NULL, "login_failed", "auth", NULL, FALSE, "")
                    /\ Respond("auth.login", NULL, "failed")
                    /\ UNCHANGED current_user
               ELSE /\ current_user' = user_id
                    /\ log_action(user_id, "login", "auth", NULL, TRUE, "")
                    /\ Respond("auth.login", NULL, "ok")
    /\ UNCHANGED <<in_flight, org_units, users, customers, opportunities, tasks, targets,
                   achievements, now>>

Logout ==
    /\ is_authenticated(current_user)
    /\ CanAudit
    /\ log_action(current_user, "logout", "auth", NULL, TRUE, "")
    /\ current_user' = Anonymous
    /\ Respond("auth.logout", NULL, "ok")
    /\ UNCHANGED <<in_flight, org_units, users, customers, opportunities, tasks, targets,
                   achievements, now>>

-----------------------------------------------------------------------------
(* opportunities routes (POST).  A route that raises, or that catches its   *)
(* error and returns without committing, leaves its changes pending in the *)
(* session; the commit of AuditLog.log_action in audit_action then writes  *)
(* them with the audit entry.                                               *)

FormAmounts == {0, 5000}
FormProbabilities == {None, 50}
FormRevenues == {None, 0, 7000}
FormStages == OpportunityStage \cup {"BOGUS"}
FormReasons == {"PRICE", "BOGUS"}
LostReason == {"PRICE", "COMPETITOR", "NO_RESPONSE", "TIMING", "NO_NEED",
               "CREDIT_REJECTED", "OTHER"}

NextId(table) == Cardinality(DOMAIN table) + 1

OppFrame == UNCHANGED <<in_flight, org_units, users, current_user, customers, tasks, now>>

OppView(id) ==
    /\ is_authenticated(current_user)
    /\ CanAudit
    /\ IF id \notin DOMAIN opportunities
       THEN /\ Respond("opportunities.view", id, "not_found")
            /\ audit_action("view", "opportunity", id, FALSE, "NotFound")
       ELSE IF can_view_opportunity(current_user, opportunities[id]) = Deny
       THEN /\ Respond("opportunities.view", id, "denied")
            /\ audit_action("view", "opportunity", id, TRUE, "")
       ELSE /\ Respond("opportunities.view", id, "ok")
            /\ audit_action("view", "opportunity", id, TRUE, "")
    /\ UNCHANGED <<opportunities, targets, achievements>>
    /\ OppFrame

OppCreate(customer_id, amount, probability) ==
    /\ is_authenticated(current_user)
    /\ CanAudit
    /\ Cardinality(DOMAIN opportunities) < MaxOpp
    /\ IF customer_id \notin DOMAIN customers
       THEN /\ Respond("opportunities.create", NULL, "not_found")
            /\ audit_action("create", "opportunity", NULL, FALSE, "NotFound")
            /\ UNCHANGED opportunities
       ELSE IF can_view_customer(current_user, customers[customer_id]) = Deny
       THEN /\ Respond("opportunities.create", NULL, "denied")
            /\ audit_action("create", "opportunity", NULL, TRUE, "")
            /\ UNCHANGED opportunities
       ELSE LET new == [row |-> OpportunityRow(customer_id, current_user,
                                    users[current_user].organizational_unit_id,
                                    amount, probability),
                        amount_type |-> "float"]
                r == update_expected_revenue(new)
            IN /\ opportunities' =
                      opportunities @@ (NextId(opportunities) :> r.obj.row)
               /\ Respond("opportunities.create", NextId(opportunities), "ok")
               /\ audit_action("create", "opportunity", NULL, TRUE, "")
    /\ UNCHANGED <<targets, achievements>>
    /\ OppFrame

OppEdit(id, amount, probability) ==
    /\ is_authenticated(current_user)
    /\ CanAudit
    /\ IF id \notin DOMAIN opportunities
       THEN /\ Respond("opportunities.edit", id, "not_found")
            /\ audit_action("update", "opportunity", id, FALSE, "NotFound")
            /\ UNCHANGED opportunities
       ELSE IF can_view_opportunity(current_user, opportunities[id]) = Deny
       THEN /\ Respond("opportunities.edit", id, "denied")
            /\ audit_action("update", "opportunity", id, TRUE, "")
            /\ UNCHANGED opportunities
       ELSE LET o == [row |-> [opportunities[id] EXCEPT !.amount = amount,
                                                        !.probability = probability],
                      amount_type |-> "float"]
                r == update_expected_revenue(o)
            IN /\ opportunities' = [opportunities EXCEPT ![id] = r.obj.row]
               /\ Respond("opportunities.edit", id, "ok")
               /\ audit_action("update", "opportunity", id, TRUE, "")
    /\ UNCHANGED <<targets, achievements>>
    /\ OppFrame

OppAdvanceStage(id, new_stage) ==
    /\ is_authenticated(current_user)
    /\ CanAudit
    /\ IF id \notin DOMAIN opportunities
       THEN /\ Respond("opportunities.advance_stage", id, "not_found")
            /\ audit_action("advance_stage", "opportunity", id, FALSE, "NotFound")
            /\ UNCHANGED opportunities
       ELSE IF can_view_opportunity(current_user, opportunities[id]) = Deny
       THEN /\ Respond("opportunities.advance_stage", id, "denied")
            /\ audit_action("advance_stage", "opportunity", id, TRUE, "")
            /\ UNCHANGED opportunities
       ELSE IF new_stage \notin OpportunityStage
       THEN \* OpportunityStage[new_stage] raises KeyError, caught by the route
            /\ Respond("opportunities.advance_stage", id, "error")
            /\ audit_action("advance_stage", "opportunity", id, TRUE, "")
            /\ UNCHANGED opportunities
       ELSE LET r == advance_stage(Loaded(opportunities[id]), new_stage)
            IN /\ opportunities' = [opportunities EXCEPT ![id] = r.obj.row]
               /\ Respond("opportunities.advance_stage", id,
                          IF r.raised = "" THEN "ok" ELSE "error")
               /\ audit_action("advance_stage", "opportunity", id, TRUE, "")
    /\ UNCHANGED <<targets, achievements>>
    /\ OppFrame

\* the targets the mark-won route selects
active_targets ==
    {t \in DOMAIN targets :
        /\ targets[t].user_id = current_user
        /\ targets[t].target_type = REVENUE
        /\ targets[t].is_active
        /\ targets[t].start_date <= now
        /\ targets[t].end_date >= now}

AchievementRow(target_id, opportunity_id, achieved_value) ==
    [target_id |-> target_id, opportunity_id |-> opportunity_id,
     achieved_value |-> achieved_value, achievement_date |-> now]

RECURSIVE AchievementRows(_, _, _)
AchievementRows(target_seq, opportunity_id, value) ==
    IF target_seq = <<>> THEN <<>>
    ELSE <<AchievementRow(Head(target_seq), opportunity_id, value)>>
         \o AchievementRows(Tail(target_seq), opportunity_id, value)

OppMarkWon(id, actual_revenue) ==
    /\ is_authenticated(current_user)
    /\ CanAudit
    /\ IF id \notin DOMAIN opportunities
       THEN /\ Respond("opportunities.mark_won", id, "not_found")
            /\ audit_action("mark_won", "opportunity", id, FALSE, "NotFound")
            /\ UNCHANGED <<opportunities, targets, achievements>>
       ELSE IF can_view_opportunity(current_user, opportunities[id]) = Deny
       THEN /\ Respond("opportunities.mark_won", id, "denied")
            /\ audit_action("mark_won", "opportunity", id, TRUE, "")
            /\ UNCHANGED <<opportunities, targets, achievements>>
       ELSE LET r == mark_won(Loaded(opportunities[id]), actual_revenue)
                \* actual_revenue or opportunity.amount
                value == IF Truthy(actual_revenue) THEN actual_revenue
                         ELSE r.obj.row.amount
                value_type == IF Truthy(actual_revenue) THEN "float"
                              ELSE IF r.obj.row.amount = None THEN "NoneType"
                              ELSE "Decimal"
            IN /\ opportunities' = [opportunities EXCEPT ![id] = r.obj.row]
               /\ IF r.raised # ""
                  THEN /\ Respond("opportunities.mark_won", id, "raised")
                       /\ audit_action("mark_won", "opportunity", id, FALSE, r.raised)
                       /\ UNCHANGED <<targets, achievements>>
                  ELSE IF active_targets # {} /\ value_type # "Decimal"
                  THEN \* the achievement of the first target the query
                       \* returns is added, then update_achievement raises
                       /\ \E first \in active_targets :
                              achievements' = Append(achievements,
                                  AchievementRow(first, id, value))
                       /\ UNCHANGED targets
                       /\ Respond("opportunities.mark_won", id, "raised")
                       /\ audit_action("mark_won", "opportunity", id, FALSE, "TypeError")
                  ELSE /\ achievements' = achievements \o
                              AchievementRows(SetToSeq(active_targets), id, value)
                       /\ targets' = [t \in DOMAIN targets |->
                              IF t \in active_targets
                              THEN update_achievement(targets[t], value, value_type).obj
                              ELSE targets[t]]
                       /\ Respond("opportunities.mark_won", id, "ok")
                       /\ audit_action("mark_won", "opportunity", id, TRUE, "")
    /\ OppFrame

OppMarkLost(id, reason) ==
    /\ is_authenticated(current_user)
    /\ CanAudit
    /\ IF id \notin DOMAIN opportunities
       THEN /\ Respond("opportunities.mark_lost", id, "not_found")
            /\ audit_action("mark_lost", "opportunity", id, FALSE, "NotFound")
            /\ UNCHANGED opportunities
       ELSE IF can_view_opportunity(current_user, opportunities[id]) = Deny
       THEN /\ Respond("opportunities.mark_lost", id, "denied")
            /\ audit_action("mark_lost", "opportunity", id, TRUE, "")
            /\ UNCHANGED opportunities
       ELSE IF reason \notin LostReason
       THEN \* LostReason[...] raises KeyError out of the route
            /\ Respond("opportunities.mark_lost", id, "raised")
            /\ audit_action("mark_lost", "opportunity", id, FALSE, "KeyError")
            /\ UNCHANGED opportunities
       ELSE LET r == mark_lost(Loaded(opportunities[id]), reason)
            IN /\ opportunities' = [opportunities EXCEPT ![id] = r.obj.row]
               /\ Respond("opportunities.mark_lost", id, "ok")
               /\ audit_action("mark_lost", "opportunity", id, TRUE, "")
    /\ UNCHANGED <<targets, achievements>>
    /\ OppFrame

-----------------------------------------------------------------------------
(* targets routes *)

FormTargetUsers == {NULL, 1, 4}
FormTargetUnits == {NULL, 1}
FormTargetValues == {0, 1000}

\* the names of the TargetType enum; a row whose stored target_type is not
\* one of them cannot be loaded (LookupError)
TargetType == {"REVENUE", "NEW_CUSTOMERS", "PRODUCT_SALES", "PORTFOLIO_GROWTH",
               "CROSS_SELL"}

TargetFrame == UNCHANGED <<in_flight, org_units, users, current_user, customers,
                           opportunities, tasks, achievements, now>>

\* require_access_level('BRANCH', 'REGIONAL', 'EXECUTIVE')
require_access_level == users[current_user].access_level \in {BRANCH, REGIONAL, EXECUTIVE}

TargetView(id) ==
    /\ is_authenticated(current_user)
    /\ CanAudit
    /\ IF id \notin DOMAIN targets
       THEN /\ Respond("targets.view", id, "not_found")
            /\ audit_action("view", "target", id, FALSE, "NotFound")
       ELSE IF targets[id].target_type \notin TargetType
       THEN /\ Respond("targets.view", id, "raised")
            /\ audit_action("view", "target", id, FALSE, "LookupError")
       ELSE IF /\ users[current_user].access_level = INDIVIDUAL
               /\ targets[id].user_id # current_user
       THEN /\ Respond("targets.view", id, "denied")
            /\ audit_action("view", "target", id, TRUE, "")
       ELSE /\ Respond("targets.view", id, "ok")
            /\ audit_action("view", "target", id, TRUE, "")
    /\ UNCHANGED targets
    /\ TargetFrame

TargetCreate(user_id, org_unit_id, target_value) ==
    /\ is_authenticated(current_user)
    /\ IF ~require_access_level
       THEN /\ Respond("targets.create", NULL, "forbidden")
            /\ UNCHANGED <<targets, audit_logs>>
       ELSE /\ CanAudit
            /\ Cardinality(DOMAIN targets) < MaxTarget
            /\ IF user_id # NULL
               THEN /\ targets' = targets @@
                        (NextId(targets) :> TargetRow(user_id, NULL, target_value))
                    /\ Respond("targets.create", NextId(targets), "ok")
               ELSE IF org_unit_id # NULL
               THEN /\ targets' = targets @@
                        (NextId(targets) :> TargetRow(NULL, org_unit_id, target_value))
                    /\ Respond("targets.create", NextId(targets), "ok")
               ELSE /\ Respond("targets.create", NULL, "unassigned")
                    /\ UNCHANGED targets
            /\ audit_action("create", "target", NULL, TRUE, "")
    /\ TargetFrame

TargetEdit(id, target_value) ==
    /\ is_authenticated(current_user)
    /\ IF ~require_access_level
       THEN /\ Respond("targets.edit", id, "forbidden")
            /\ UNCHANGED <<targets, audit_logs>>
       ELSE /\ CanAudit
            /\ IF id \notin DOMAIN targets
               THEN /\ Respond("targets.edit", id, "not_found")
                    /\ audit_action("update", "target", id, FALSE, "NotFound")
                    /\ UNCHANGED targets
               ELSE IF targets[id].target_type \notin TargetType
               THEN /\ Respond("targets.edit", id, "raised")
                    /\ audit_action("update", "target", id, FALSE, "LookupError")
                    /\ UNCHANGED targets
               ELSE /\ targets' = [targets EXCEPT ![id].target_value = target_value]
                    /\ Respond("targets.edit", id, "ok")
                    /\ audit_action("update", "target", id, TRUE, "")
    /\ TargetFrame

-----------------------------------------------------------------------------
(* The clock: datetime.utcnow() of a request is the value of now *)

Tick ==
    /\ now < MaxNow
    /\ now' = now + 1
    /\ UNCHANGED <<in_flight, org_units, users, current_user, customers, opportunities,
                   tasks, targets, achievements, audit_logs, response>>

-----------------------------------------------------------------------------
(* customers routes *)

FormCustomerStages == CustomerStage \cup {"BOGUS"}

CustomerAdvanceStage(id, new_stage) ==
    /\ is_authenticated(current_user)
    /\ CanAudit
    /\ IF id \notin DOMAIN customers
       THEN /\ Respond("customers.advance_stage", id, "not_found")
            /\ audit_action("advance_stage", "customer", id, FALSE, "NotFound")
            /\ UNCHANGED customers
       ELSE IF can_edit_customer(current_user, customers[id]) = Deny
       THEN /\ Respond("customers.advance_stage", id, "denied")
            /\ audit_action("advance_stage", "customer", id, TRUE, "")
            /\ UNCHANGED customers
       ELSE IF new_stage \notin CustomerStage
       THEN \* CustomerStage[new_stage] raises KeyError, caught by the route
            /\ Respond("customers.advance_stage", id, "error")
            /\ audit_action("advance_stage", "customer", id, TRUE, "")
            /\ UNCHANGED customers
       ELSE /\ customers' = [customers EXCEPT
                                ![id] = customer_advance_stage(customers[id], new_stage)]
            /\ Respond("customers.advance_stage", id, "ok")
            /\ audit_action("advance_stage", "customer", id, TRUE, "")
    /\ UNCHANGED <<in_flight, org_units, users, current_user, opportunities, tasks, targets,
                   achievements, now>>

-----------------------------------------------------------------------------
(* activities routes for tasks.  A row whose stored status is not a name  *)
(* of TaskStatus cannot be loaded (LookupError).                          *)

FormViews == {"my", "team"}
FormEscalateTo == {NULL, 2}

TaskFrame == UNCHANGED <<in_flight, org_units, users, current_user, customers,
                         opportunities, targets, achievements, now>>

\* GET /activities/tasks: not audited
TasksList(view) ==
    /\ is_authenticated(current_user)
    /\ LET query == IF view = "my"
                    THEN {t \in apply_task_filter(current_user) :
                             tasks[t].assigned_to_id = current_user}
                    ELSE apply_task_filter(current_user)
           open == {t \in query : tasks[t].status \in {"PENDING", "IN_PROGRESS"}}
       IN /\ tasks' = [t \in DOMAIN tasks |->
                          IF t \in open THEN check_overdue(tasks[t]) ELSE tasks[t]]
          /\ Respond("activities.tasks", NULL,
                     IF \E t \in query : tasks[t].status \notin TaskStatus
                     THEN "raised" ELSE "ok")
    /\ UNCHANGED audit_logs
    /\ TaskFrame

TaskView(id) ==
    /\ is_authenticated(current_user)
    /\ CanAudit
    /\ IF id \notin apply_task_filter(current_user)
       THEN /\ Respond("activities.view_task", id, "not_found")
            /\ audit_action("view", "task", id, FALSE, "NotFound")
       ELSE IF tasks[id].status \notin TaskStatus
       THEN /\ Respond("activities.view_task", id, "raised")
            /\ audit_action("view", "task", id, FALSE, "LookupError")
       ELSE /\ Respond("activities.view_task", id, "ok")
            /\ audit_action("view", "task", id, TRUE, "")
    /\ UNCHANGED tasks
    /\ TaskFrame

TaskComplete_anyuser(id) ==
    /\ is_authenticated(current_user)
    /\ CanAudit
    /\ IF id \notin apply_task_filter(current_user)
       THEN /\ Respond("activities.complete_task", id, "not_found")
            /\ audit_action("complete", "task", id, FALSE, "NotFound")
            /\ UNCHANGED tasks
       ELSE IF tasks[id].status \notin TaskStatus
       THEN /\ Respond("activities.complete_task", id, "raised")
            /\ audit_action("complete", "task", id, FALSE, "LookupError")
            /\ UNCHANGED tasks
       ELSE /\ tasks' = [tasks EXCEPT ![id] = complete(tasks[id])]
            /\ Respond("activities.complete_task", id, "ok")
            /\ audit_action("complete", "task", id, TRUE, "")
    /\ TaskFrame

TaskComplete(id) ==
    /\ is_authenticated(current_user)
    /\ CanAudit
    /\ IF id \notin apply_task_filter(current_user)
       THEN /\ Respond("activities.complete_task", id, "not_found")
            /\ audit_action("complete", "task", id, FALSE, "NotFound")
            /\ UNCHANGED tasks
       ELSE IF tasks[id].status \notin TaskStatus
       THEN /\ Respond("activities.complete_task", id, "raised")
            /\ audit_action("complete", "task", id, FALSE, "LookupError")
            /\ UNCHANGED tasks
       ELSE IF tasks[id].assigned_to_id # current_user
       THEN /\ Respond("activities.complete_task", id, "denied")
            /\ audit_action("complete", "task", id, TRUE, "")
            /\ UNCHANGED tasks
       ELSE /\ tasks' = [tasks EXCEPT ![id] = complete(tasks[id])]
            /\ Respond("activities.complete_task", id, "ok")
            /\ audit_action("complete", "task", id, TRUE, "")
    /\ TaskFrame

TaskEscalate(id, escalate_to_id) ==
    /\ is_authenticated(current_user)
    /\ CanAudit
    /\ IF id \notin apply_task_filter(current_user)
       THEN /\ Respond("activities.escalate_task", id, "not_found")
            /\ audit_action("escalate", "task", id, FALSE, "NotFound")
            /\ UNCHANGED tasks
       ELSE IF tasks[id].status \notin TaskStatus
       THEN /\ Respond("activities.escalate_task", id, "raised")
            /\ audit_action("escalate", "task", id, FALSE, "LookupError")
            /\ UNCHANGED tasks
       ELSE IF escalate_to_id = NULL
       THEN /\ Respond("activities.escalate_task", id, "missing")
            /\ audit_action("escalate", "task", id, TRUE, "")
            /\ UNCHANGED tasks
       ELSE /\ tasks' = [tasks EXCEPT ![id] = escalate(tasks[id], escalate_to_id)]
            /\ Respond("activities.escalate_task", id, "ok")
            /\ audit_action("escalate", "task", id, TRUE, "")
    /\ TaskFrame

-----------------------------------------------------------------------------
(* The database after flask init-db and flask seed-db *)

UserRow(access_level, unit_id) ==
    [access_level |-> access_level, organizational_unit_id |-> unit_id]

SeedUsers == 1..4

InitSeed ==
    /\ org_units = (1 :> [parent_id |-> NULL]) @@ (2 :> [parent_id |-> 1])
                   @@ (3 :> [parent_id |-> 2])
    /\ users = (1 :> UserRow(EXECUTIVE, 1)) @@ (2 :> UserRow(REGIONAL, 2))
               @@ (3 :> UserRow(BRANCH, 3)) @@ (4 :> UserRow(INDIVIDUAL, 3))
    /\ current_user = Anonymous
    /\ customers = [c \in 1..4 |->
                       [CustomerRow(4, 3) EXCEPT
                           !.stage = CASE c = 1 -> "CUSTOMER" [] c = 2 -> "LEAD"
                                       [] c = 3 -> "PROSPECT" [] OTHER -> "SUSPECT",
                           !.suspect_date = 1 - 30,
                           !.customer_date = IF c = 1 THEN 1 - 10 ELSE NULL]]
    /\ opportunities =
           (1 :> [OpportunityRow(1, 4, 3, 150000, 60) EXCEPT
                     !.stage = PROPOSAL, !.expected_revenue = 90000])
        @@ (2 :> [OpportunityRow(2, 4, 3, 5000, 75) EXCEPT
                     !.stage = NEGOTIATION, !.expected_revenue = 3750])
    /\ tasks = 1 :> [TaskRow(4, 3) EXCEPT !.status = "pending", !.due_date = 1 + 2]
    /\ targets = 1 :> [calculate_achievement(
                          [TargetRow(4, NULL, 500000) EXCEPT !.achieved_value = 150000])
                       EXCEPT !.target_type = "revenue"]
    /\ achievements = <<>>
    /\ audit_logs = <<>>
    /\ response = NoResponse
    /\ in_flight = <<>>
    /\ now = 1

AuthNext ==
    \/ LoginRequired
    \/ \E user_id \in SeedUsers, password_ok \in BOOLEAN : Login(user_id, password_ok)
    \/ Logout

NextOpportunity ==
    \/ AuthNext
    \/ \E id \in 1..MaxOpp : OppView(id)
    \/ \E customer_id \in {1, 5}, amount \in FormAmounts, probability \in {10, 50} :
          OppCreate(customer_id, amount, probability)
    \/ \E id \in 1..MaxOpp, amount \in FormAmounts, probability \in FormProbabilities :
          OppEdit(id, amount, probability)
    \/ \E id \in 1..MaxOpp, new_stage \in FormStages : OppAdvanceStage(id, new_stage)
    \/ \E id \in 1..MaxOpp, actual_revenue \in FormRevenues : OppMarkWon(id, actual_revenue)
    \/ \E id \in 1..MaxOpp, reason \in FormReasons : OppMarkLost(id, reason)

SpecOpportunity == InitSeed /\ [][NextOpportunity]_vars

NextTarget ==
    \/ AuthNext
    \/ \E id \in 1..MaxTarget : TargetView(id)
    \/ \E user_id \in FormTargetUsers, org_unit_id \in FormTargetUnits,
          target_value \in FormTargetValues :
          TargetCreate(user_id, org_unit_id, target_value)
    \/ \E id \in 1..MaxTarget, target_value \in FormTargetValues :
          TargetEdit(id, target_value)

SpecTarget == InitSeed /\ [][NextTarget]_vars

NextCustomer ==
    \/ AuthNext
    \/ Tick
    \/ \E id \in 1..5, new_stage \in FormCustomerStages :
          CustomerAdvanceStage(id, new_stage)

SpecCustomer == InitSeed /\ [][NextCustomer]_vars

\* the advance-stage route alone, for a customer of each stage and an id
\* without a row
NextCustomerAudit ==
    \/ AuthNext
    \/ \E id \in 1..5, new_stage \in FormCustomerStages :
          CustomerAdvanceStage(id, new_stage)

SpecCustomerAudit == InitSeed /\ [][NextCustomerAudit]_vars

\* The tasks table holds one task in any of the statuses of TaskStatus,
\* completed, overdue or escalated earlier or not; the rest is the seed.
InitTask ==
    /\ org_units = (1 :> [parent_id |-> NULL]) @@ (2 :> [parent_id |-> 1])
                   @@ (3 :> [parent_id |-> 2])
    /\ users = (1 :> UserRow(EXECUTIVE, 1)) @@ (2 :> UserRow(REGIONAL, 2))
               @@ (3 :> UserRow(BRANCH, 3)) @@ (4 :> UserRow(INDIVIDUAL, 3))
    /\ current_user = Anonymous
    /\ customers = (1 :> CustomerRow(4, 3))
    /\ opportunities = <<>>
    /\ \E status \in TaskStatus, assigned_to_id \in {4}, due_date \in {1, 2},
          escalation_level \in {0, 1} :
          /\ status = "OVERDUE" => due_date = 1
          /\ tasks = (1 :> [TaskRow(assigned_to_id, 3) EXCEPT
                 !.status = status,
                 !.due_date = due_date,
                 !.is_overdue = (status = "OVERDUE"),
                 !.completed_date = IF status = "COMPLETED" THEN 1 ELSE NULL,
                 !.escalation_level = escalation_level,
                 !.escalated_to_id = IF escalation_level > 0 THEN 2 ELSE NULL,
                 !.escalation_date = IF escalation_level > 0 THEN 1 ELSE NULL])
    /\ targets = <<>>
    /\ achievements = <<>>
    /\ audit_logs = <<>>
    /\ response = NoResponse
    /\ in_flight = <<>>
    /\ now = 2

NextTask ==
    \/ AuthNext
    \/ Tick
    \/ \E view \in FormViews : TasksList(view)
    \/ \E id \in 1..2 : TaskView(id)
    \/ \E id \in 1..2 : TaskComplete(id)
    \/ \E id \in 1..2, escalate_to_id \in FormEscalateTo : TaskEscalate(id, escalate_to_id)

SpecTask == InitTask /\ [][NextTask]_vars

-----------------------------------------------------------------------------
(* Requests during which the commit of AuditLog.log_action raises (the    *)
(* database refuses the write).  log_action has no handler of its own:    *)
(* the error goes to whoever called it.                                   *)

AuditFrame == UNCHANGED <<in_flight, org_units, users, customers, opportunities, tasks,
                          targets, achievements, audit_logs, now>>

\* POST /auth/login: log_action is called outside any try block
LoginAuditFails(user_id, password_ok) ==
    /\ IF is_authenticated(current_user)
       THEN /\ Respond("auth.login", NULL, "redirect")
            /\ UNCHANGED current_user
       ELSE IF user_id \notin DOMAIN users \/ ~password_ok
       THEN /\ Respond("auth.login", NULL, "audit_error")
            /\ UNCHANGED current_user
       ELSE \* login_user and the commit of last_login came first
            /\ current_user' = user_id
            /\ Respond("auth.login", NULL, "audit_error")
    /\ AuditFrame

\* GET /auth/logout: log_action raises before logout_user
LogoutAuditFails ==
    /\ is_authenticated(current_user)
    /\ Respond("auth.logout", NULL, "audit_error")
    /\ UNCHANGED current_user
    /\ AuditFrame

\* a route under audit_action: the decorator catches the audit error
OppViewAuditFails(id) ==
    /\ is_authenticated(current_user)
    /\ IF id \notin DOMAIN opportunities
       THEN Respond("opportunities.view", id, "not_found")
       ELSE IF can_view_opportunity(current_user, opportunities[id]) = Deny
       THEN Respond("opportunities.view", id, "denied")
       ELSE Respond("opportunities.view", id, "ok")
    /\ UNCHANGED current_user
    /\ AuditFrame

NextAuditFailure ==
    \/ AuthNext
    \/ \E id \in 1..MaxOpp : OppView(id)
    \/ \E user_id \in SeedUsers, password_ok \in BOOLEAN :
          LoginAuditFails(user_id, password_ok)
    \/ LogoutAuditFails
    \/ \E id \in 1..MaxOpp : OppViewAuditFails(id)

SpecAuditFailure == InitSeed /\ [][NextAuditFailure]_vars

-----------------------------------------------------------------------------
(* Customer.calculate_qualification_score, with time counted in days *)

\* a string column that is None or '' is falsy
TruthyStr(x) == x # ""

calculate_qualification_score_600(c, id) ==
    (IF TruthyStr(c.email) THEN 10 ELSE 0)
    + (IF Truthy(c.credit_score) /\ c.credit_score >= 600 THEN 20 ELSE 0)

calculate_qualification_score(c, id) ==
    LET contact == IF TruthyStr(c.email) THEN 10 ELSE 0
        anyphone == IF TruthyStr(c.mobile) \/ TruthyStr(c.phone) THEN 10 ELSE 0
        assets == IF Truthy(c.estimated_assets) THEN 20 ELSE 0
        credit == IF Truthy(c.credit_score) /\ c.credit_score > 600 THEN 20 ELSE 0
        days_since_contact == now - c.last_contact_date
        engagement == IF c.last_contact_date = NULL THEN 0
                      ELSE IF days_since_contact < 7 THEN 20
                      ELSE IF days_since_contact < 30 THEN 10
                      ELSE 0
        active == {o \in DOMAIN opportunities :
                      /\ opportunities[o].customer_id = id
                      /\ opportunities[o].is_active}
        pipeline == IF Cardinality(active) > 0 THEN 20 ELSE 0
        score == contact + anyphone + assets + credit + engagement + pipeline
    IN IF score < 100 THEN score ELSE 100

FormEmails == {"", "ana@example.com"}
FormPhones == {"", "061111222"}
FormAssets == {None, 0, 250000}
FormCreditScores == {None, 600, 700}
\* never, today, 6, 7, 29 and 30 days before the first day
FormLastContacts == {NULL, 1, 1 - 6, 1 - 7, 1 - 29, 1 - 30}

InitQualification ==
    /\ org_units = (1 :> [parent_id |-> NULL])
    /\ users = (1 :> UserRow(EXECUTIVE, 1))
    /\ current_user = 1
    /\ \E email \in FormEmails, mobile \in FormPhones, phone \in FormPhones,
          estimated_assets \in FormAssets, credit_score \in FormCreditScores,
          last_contact_date \in FormLastContacts :
          customers = (1 :> (CustomerRow(1, 1) @@
                             [email |-> email, mobile |-> mobile, phone |-> phone,
                              estimated_assets |-> estimated_assets,
                              credit_score |-> credit_score,
                              last_contact_date |-> last_contact_date,
                              qualification_score |-> 0]))
    /\ \E is_active \in BOOLEAN :
          opportunities \in
              {<<>>, (1 :> [OpportunityRow(1, 1, 1, 0, None) EXCEPT !.is_active = is_active])}
    /\ tasks = <<>>
    /\ targets = <<>>
    /\ achievements = <<>>
    /\ audit_logs = <<>>
    /\ response = NoResponse
    /\ in_flight = <<>>
    /\ now = 1

QualificationScore(id) ==
    /\ id \in DOMAIN customers
    /\ customers' = [customers EXCEPT ![id].qualification_score =
                         calculate_qualification_score(customers[id], id)]
    /\ response' = [route |-> "Customer.calculate_qualification_score", id |-> id,
                    status |-> "returned",
                    value |-> calculate_qualification_score(customers[id], id)]
    /\ UNCHANGED <<in_flight, org_units, users, current_user, opportunities, tasks, targets,
                   achievements, audit_logs, now>>

NextQualification ==
    \/ Tick
    \/ \E id \in {1} : QualificationScore(id)

SpecQualification == InitQualification /\ [][NextQualification]_vars

-----------------------------------------------------------------------------
(* The methods of OrganizationalUnit on any forest of units, a parent_id   *)
(* without a row included                                                  *)

RECURSIVE ParentChain(_, _, _)
\* the unit reached from u by k steps along parent_id in f, NULL past a root
ParentChain(f, u, k) ==
    IF k = 0 \/ u \notin DOMAIN f THEN (IF u \in DOMAIN f THEN u ELSE NULL)
    ELSE ParentChain(f, f[u].parent_id, k - 1)

AnyForests ==
    {f \in [UnitIds -> [parent_id : {NULL, AbsentUnit} \cup UnitIds]] :
        \A u \in UnitIds : \A k \in 1..MaxUnit : ParentChain(f, u, k) # u}

InitOrg ==
    /\ org_units \in AnyForests
    /\ users = <<>>
    /\ current_user = Anonymous
    /\ customers = <<>>
    /\ opportunities = <<>>
    /\ tasks = <<>>
    /\ targets = <<>>
    /\ achievements = <<>>
    /\ audit_logs = <<>>
    /\ response = NoResponse
    /\ in_flight = <<>>
    /\ now = 1

OrgFrame == UNCHANGED <<in_flight, org_units, users, current_user, customers, opportunities,
                        tasks, targets, achievements, audit_logs, now>>

GetAllChildren(unit) ==
    /\ unit \in DOMAIN org_units
    /\ response' = [route |-> "OrganizationalUnit.get_all_children", id |-> unit,
                    status |-> "returned", value |-> get_all_children(unit)]
    /\ OrgFrame

GetHierarchyPath(unit) ==
    /\ unit \in DOMAIN org_units
    /\ response' = [route |-> "OrganizationalUnit.get_hierarchy_path", id |-> unit,
                    status |-> "returned", value |-> get_hierarchy_path(unit)]
    /\ OrgFrame

NextOrg ==
    \/ \E unit \in UnitIds : GetAllChildren(unit)
    \/ \E unit \in UnitIds : GetHierarchyPath(unit)

SpecOrg == InitOrg /\ [][NextOrg]_vars

-----------------------------------------------------------------------------
(* Repeated mark-won requests.  The database holds the seed, an            *)
(* opportunity created through the create route and a REVENUE target       *)
(* created through the targets create route for the same user.             *)

InitMarkWon ==
    /\ org_units = (1 :> [parent_id |-> NULL]) @@ (2 :> [parent_id |-> 1])
                   @@ (3 :> [parent_id |-> 2])
    /\ users = (1 :> UserRow(EXECUTIVE, 1)) @@ (2 :> UserRow(REGIONAL, 2))
               @@ (3 :> UserRow(BRANCH, 3)) @@ (4 :> UserRow(INDIVIDUAL, 3))
    /\ current_user = Anonymous
    /\ customers = [c \in 1..4 |->
                       [CustomerRow(4, 3) EXCEPT
                           !.stage = CASE c = 1 -> "CUSTOMER" [] c = 2 -> "LEAD"
                                       [] c = 3 -> "PROSPECT" [] OTHER -> "SUSPECT",
                           !.suspect_date = 1 - 30,
                           !.customer_date = IF c = 1 THEN 1 - 10 ELSE NULL]]
    /\ \E owner \in {1, 4}, amount \in FormAmounts :
          /\ opportunities =
                 (1 :> [OpportunityRow(1, 4, 3, 150000, 60) EXCEPT
                           !.stage = PROPOSAL, !.expected_revenue = 90000])
              @@ (2 :> [OpportunityRow(2, 4, 3, 5000, 75) EXCEPT
                           !.stage = NEGOTIATION, !.expected_revenue = 3750])
              @@ (3 :> update_expected_revenue(
                           [row |-> OpportunityRow(3, owner,
                                        users[owner].organizational_unit_id, amount, 50),
                            amount_type |-> "float"]).obj.row)
          /\ targets = (1 :> [calculate_achievement(
                                 [TargetRow(4, NULL, 500000) EXCEPT !.achieved_value = 150000])
                              EXCEPT !.target_type = "revenue"])
                    @@ (2 :> TargetRow(owner, NULL, 1000))
    /\ tasks = 1 :> [TaskRow(4, 3) EXCEPT !.status = "pending", !.due_date = 1 + 2]
    /\ achievements = <<>>
    /\ audit_logs = <<>>
    /\ response = NoResponse
    /\ in_flight = <<>>
    /\ now = 1

NextMarkWon ==
    \/ AuthNext
    \/ \E id \in 1..MaxOpp, actual_revenue \in FormRevenues : OppMarkWon(id, actual_revenue)

SpecMarkWon == InitMarkWon /\ [][NextMarkWon]_vars

-----------------------------------------------------------------------------
(* Concurrent mark-won requests.  Each request works on the objects of its *)
(* own session: it reads the opportunity and the targets, changes them in  *)
(* memory, and its commit writes the values it computed.  No row is        *)
(* locked and no version is compared; which interleavings the database     *)
(* admits depends on the engine DATABASE_URL names, so every interleaving  *)
(* of the reads and the commits is a behaviour.                            *)

MaxRequests == 2

\* the session of a mark-won request when it reaches its commit, or when
\* an exception leaves the view function
MarkWonSession(id, actual_revenue, first) ==
    LET r == mark_won(Loaded(opportunities[id]), actual_revenue)
        value == IF Truthy(actual_revenue) THEN actual_revenue
                 ELSE r.obj.row.amount
        value_type == IF Truthy(actual_revenue) THEN "float"
                      ELSE IF r.obj.row.amount = None THEN "NoneType"
                      ELSE "Decimal"
    IN IF r.raised # ""
       THEN [opportunity |-> r.obj.row, achievements |-> <<>>, targets |-> <<>>,
             raised |-> r.raised]
       ELSE IF active_targets # {} /\ value_type # "Decimal"
       THEN [opportunity |-> r.obj.row,
             achievements |-> <<AchievementRow(first, id, value)>>,
             targets |-> <<>>, raised |-> "TypeError"]
       ELSE [opportunity |-> r.obj.row,
             achievements |-> AchievementRows(SetToSeq(active_targets), id, value),
             targets |-> [t \in active_targets |->
                             update_achievement(targets[t], value, value_type).obj],
             raised |-> ""]

\* the request up to its commit: nothing is written yet
MarkWonBegin(p, id, actual_revenue) ==
    /\ p \notin DOMAIN in_flight
    /\ is_authenticated(current_user)
    /\ IF id \notin DOMAIN opportunities
       THEN /\ CanAudit
            /\ Respond("opportunities.mark_won", id, "not_found")
            /\ audit_action("mark_won", "opportunity", id, FALSE, "NotFound")
            /\ in_flight' = in_flight @@
                   (p :> [user |-> current_user, id |-> id, refused |-> TRUE, done |-> TRUE])
       ELSE IF can_view_opportunity(current_user, opportunities[id]) = Deny
       THEN /\ CanAudit
            /\ Respond("opportunities.mark_won", id, "denied")
            /\ audit_action("mark_won", "opportunity", id, TRUE, "")
            /\ in_flight' = in_flight @@
                   (p :> [user |-> current_user, id |-> id, refused |-> TRUE, done |-> TRUE])
       ELSE /\ \E first \in (IF active_targets = {} THEN {NULL} ELSE active_targets) :
                  in_flight' = in_flight @@
                      (p :> [user |-> current_user, id |-> id, refused |-> FALSE,
                             done |-> FALSE,
                             session |-> MarkWonSession(id, actual_revenue, first)])
            /\ UNCHANGED <<audit_logs, response>>
    /\ UNCHANGED <<org_units, users, current_user, customers, opportunities, tasks,
                   targets, achievements, now>>

\* the commit that ends the request, db.session.commit() of the route or of
\* log_action: the changed columns are written with the session's values
MarkWonCommit(p) ==
    /\ p \in DOMAIN in_flight
    /\ ~in_flight[p].done
    /\ CanAudit
    /\ LET f == in_flight[p]
           s == f.session
       IN /\ opportunities' = [opportunities EXCEPT ![f.id] = s.opportunity]
          /\ achievements' = achievements \o s.achievements
          /\ targets' = [t \in DOMAIN targets |->
                 IF t \in DOMAIN s.targets
                 THEN [targets[t] EXCEPT
                          !.achieved_value = s.targets[t].achieved_value,
                          !.achievement_percentage = s.targets[t].achievement_percentage]
                 ELSE targets[t]]
          /\ log_action(f.user, "mark_won", "opportunity", f.id, s.raised = "", s.raised)
          /\ Respond("opportunities.mark_won", f.id,
                     IF s.raised = "" THEN "ok" ELSE "raised")
    /\ in_flight' = [in_flight EXCEPT ![p].done = TRUE]
    /\ UNCHANGED <<org_units, users, current_user, customers, tasks, now>>

NextConcurrentWon ==
    \/ AuthNext
    \/ \E p \in 1..MaxRequests, id \in 1..(MaxOpp + 1), actual_revenue \in FormRevenues :
          MarkWonBegin(p, id, actual_revenue)
    \/ \E p \in 1..MaxRequests : MarkWonCommit(p)

SpecConcurrentWon == InitMarkWon /\ [][NextConcurrentWon]_vars

-----------------------------------------------------------------------------
(* A function under sensitive_data_access, which returns or raises *)

SensitiveDataAccess(raises) ==
    /\ is_authenticated(current_user)
    /\ CanAudit
    /\ IF raises
       THEN \* result = f(...) raises before the logging code is reached
            /\ Respond("sensitive_data", NULL, "raised")
            /\ UNCHANGED audit_logs
       ELSE /\ log_action(current_user, "view_sensitive", "sensitive_data", NULL, TRUE, "")
            /\ Respond("sensitive_data", NULL, "ok")
    /\ UNCHANGED <<in_flight, org_units, users, current_user, customers, opportunities,
                   tasks, targets, achievements, now>>

NextSensitive ==
    \/ AuthNext
    \/ \E raises \in BOOLEAN : SensitiveDataAccess(raises)

SpecSensitive == InitSeed /\ [][NextSensitive]_vars

-----------------------------------------------------------------------------
(* The methods of Target called on targets built as the create route      *)
(* builds them; update_achievement receives a Decimal.                    *)

MaxAchieved == 1000
FormAdditionalValues == {0, 500}

InitTargetMethods ==
    /\ org_units = (1 :> [parent_id |-> NULL])
    /\ users = (1 :> UserRow(EXECUTIVE, 1))
    /\ current_user = 1
    /\ customers = <<>>
    /\ opportunities = <<>>
    /\ tasks = <<>>
    /\ targets = <<>>
    /\ achievements = <<>>
    /\ audit_logs = <<>>
    /\ response = NoResponse
    /\ in_flight = <<>>
    /\ now = 1

TargetMethodFrame == UNCHANGED <<in_flight, org_units, users, current_user, customers,
                                 opportunities, tasks, achievements, audit_logs, now>>

\* Target(...) with the column defaults, as in the create route
MethodTargetCreate(target_value) ==
    /\ Cardinality(DOMAIN targets) < MaxTarget
    /\ targets' = targets @@ (NextId(targets) :> TargetRow(1, NULL, target_value))
    /\ Respond("Target", NextId(targets), "returned")
    /\ TargetMethodFrame

\* the assignment of the edit route
MethodTargetEdit(id, target_value) ==
    /\ id \in DOMAIN targets
    /\ targets' = [targets EXCEPT ![id].target_value = target_value]
    /\ Respond("targets.edit", id, "returned")
    /\ TargetMethodFrame

MethodUpdateAchievement(id, additional_value) ==
    /\ id \in DOMAIN targets
    /\ targets[id].achieved_value + additional_value <= MaxAchieved
    /\ targets' = [targets EXCEPT
                      ![id] = update_achievement(targets[id], additional_value, "Decimal").obj]
    /\ Respond("Target.update_achievement", id, "returned")
    /\ TargetMethodFrame

MethodCalculateAchievement(id) ==
    /\ id \in DOMAIN targets
    /\ targets' = [targets EXCEPT ![id] = calculate_achievement(targets[id])]
    /\ Respond("Target.calculate_achievement", id, "returned")
    /\ TargetMethodFrame

NextTargetMethods ==
    \/ \E target_value \in FormTargetValues : MethodTargetCreate(target_value)
    \/ \E id \in 1..MaxTarget, target_value \in FormTargetValues :
          MethodTargetEdit(id, target_value)
    \/ \E id \in 1..MaxTarget, additional_value \in FormAdditionalValues :
          MethodUpdateAchievement(id, additional_value)
    \/ \E id \in 1..MaxTarget : MethodCalculateAchievement(id)

SpecTargetMethods == InitTargetMethods /\ [][NextTargetMethods]_vars

-----------------------------------------------------------------------------
(* The methods of Opportunity called on one object.  The object is built  *)
(* as the create route and seed_db build it; at each call its amount is a *)
(* Decimal (the row was loaded) or a float (it was assigned from a form). *)

AmountTypes == {"float", "Decimal"}

InitMethods ==
    /\ org_units = (1 :> [parent_id |-> NULL])
    /\ users = (1 :> UserRow(INDIVIDUAL, 1))
    /\ current_user = 1
    /\ customers = (1 :> CustomerRow(1, 1))
    /\ \E amount \in FormAmounts, probability \in {None, 10, 60},
          stage \in {IDENTIFICATION, LOST} :
          opportunities = (1 :> update_expected_revenue(
              [row |-> [OpportunityRow(1, 1, 1, amount, probability)
                           EXCEPT !.stage = stage],
               amount_type |-> "float"]).obj.row)
    /\ tasks = <<>>
    /\ targets = <<>>
    /\ achievements = <<>>
    /\ audit_logs = <<>>
    /\ response = NoResponse
    /\ in_flight = <<>>
    /\ now = 1

MethodFrame == UNCHANGED <<in_flight, org_units, users, current_user, customers, tasks,
                           targets, achievements, audit_logs, now>>

Outcome(r) == IF r.raised = "" THEN "returned" ELSE "raised"

MethodAdvanceStage(new_stage, amount_type) ==
    LET r == advance_stage([row |-> opportunities[1], amount_type |-> amount_type],
                           new_stage)
    IN /\ opportunities' = [opportunities EXCEPT ![1] = r.obj.row]
       /\ Respond("Opportunity.advance_stage", 1, Outcome(r))
       /\ MethodFrame

MethodMarkWon(actual_revenue, amount_type) ==
    LET r == mark_won([row |-> opportunities[1], amount_type |-> amount_type],
                      actual_revenue)
    IN /\ opportunities' = [opportunities EXCEPT ![1] = r.obj.row]
       /\ Respond("Opportunity.mark_won", 1, Outcome(r))
       /\ MethodFrame

MethodMarkLost(reason, amount_type) ==
    LET r == mark_lost([row |-> opportunities[1], amount_type |-> amount_type],
                       reason)
    IN /\ opportunities' = [opportunities EXCEPT ![1] = r.obj.row]
       /\ Respond("Opportunity.mark_lost", 1, Outcome(r))
       /\ MethodFrame

NextMethods ==
    \/ \E new_stage \in OpportunityStage, amount_type \in AmountTypes :
          MethodAdvanceStage(new_stage, amount_type)
    \/ \E actual_revenue \in FormRevenues, amount_type \in AmountTypes :
          MethodMarkWon(actual_revenue, amount_type)
    \/ \E reason \in LostReason, amount_type \in AmountTypes :
          MethodMarkLost(reason, amount_type)

SpecOpportunityMethods == InitMethods /\ [][NextMethods]_vars

\* the opportunity routes together with the creation of targets
NextPipeline ==
    \/ NextOpportunity
    \/ \E user_id \in FormTargetUsers, org_unit_id \in FormTargetUnits,
          target_value \in FormTargetValues :
          TargetCreate(user_id, org_unit_id, target_value)

SpecPipeline == InitSeed /\ [][NextPipeline]_vars

-----------------------------------------------------------------------------
(* The organizational-unit tree as the claims speak of it: a unit lies     *)
(* inside a subtree when the root is met on its chain of parents.          *)

RECURSIVE AncestorsOf(_)
AncestorsOf(unit) ==
    IF unit \notin DOMAIN org_units THEN {}
    ELSE LET p == org_units[unit].parent_id
         IN IF p = NULL THEN {} ELSE {p} \cup AncestorsOf(p)

InSubtree(unit, root) == unit = root \/ root \in AncestorsOf(unit)

SubjectLevel == users[current_user].access_level
SubjectUnit == users[current_user].organizational_unit_id
SubjectIs(levels) == is_authenticated(current_user) /\ SubjectLevel \in levels

-----------------------------------------------------------------------------
(* Claims on access control and scoping *)

\* C1: for a REGIONAL or BRANCH user, view, edit, delete and reassign of a
\* customer are each allowed exactly when the customer's unit is the user's
\* own unit or a transitive descendant of it.
C1_UnitScopedChecks ==
    SubjectIs({REGIONAL, BRANCH}) =>
        \A c \in DOMAIN customers :
            LET inside == Verdict(InSubtree(customers[c].organizational_unit_id,
                                            SubjectUnit))
            IN /\ can_view_customer(current_user, customers[c]) = inside
               /\ can_edit_customer(current_user, customers[c]) = inside
               /\ can_delete_customer(current_user, customers[c]) = inside
               /\ can_reassign_customer(current_user, customers[c]) = inside

\* a BRANCH or REGIONAL user is allowed on a customer two levels below
\* the user's own unit
C1_Witness ==
    /\ SubjectIs({REGIONAL, BRANCH})
    /\ \E c \in DOMAIN customers :
          LET cu == customers[c].organizational_unit_id
          IN /\ cu \in DOMAIN org_units
             /\ org_units[cu].parent_id # NULL
             /\ org_units[cu].parent_id # SubjectUnit
             /\ SubjectUnit \in AncestorsOf(cu)
             /\ can_delete_customer(current_user, customers[c]) = Allow

\* C2: for an INDIVIDUAL user, view and edit are allowed exactly on the
\* customers the user owns, whatever their unit; delete, reassign and
\* opportunity approval are always denied.
C2_IndividualChecks ==
    SubjectIs({INDIVIDUAL}) =>
        /\ \A c \in DOMAIN customers :
              LET own == Verdict(customers[c].owner_id = current_user)
              IN /\ can_view_customer(current_user, customers[c]) = own
                 /\ can_edit_customer(current_user, customers[c]) = own
                 /\ can_delete_customer(current_user, customers[c]) = Deny
                 /\ can_reassign_customer(current_user, customers[c]) = Deny
        /\ \A o \in DOMAIN opportunities :
              can_approve_opportunity(current_user, opportunities[o]) = Deny

\* an INDIVIDUAL user who owns a customer of the user's own unit
C2_Witness ==
    /\ SubjectIs({INDIVIDUAL})
    /\ \E c \in DOMAIN customers :
          /\ customers[c].owner_id = current_user
          /\ customers[c].organizational_unit_id = SubjectUnit
          /\ can_view_customer(current_user, customers[c]) = Allow
          /\ can_delete_customer(current_user, customers[c]) = Deny
    /\ \E o \in DOMAIN opportunities :
          /\ opportunities[o].organizational_unit_id = SubjectUnit
          /\ opportunities[o].owner_id = current_user

\* C3: for an EXECUTIVE user every check of AccessControl allows, on every
\* target, a target of an unrelated unit or of a unit without a row included.
C3_ExecutiveAllowsAll ==
    SubjectIs({EXECUTIVE}) =>
        /\ \A c \in DOMAIN customers :
              /\ can_view_customer(current_user, customers[c]) = Allow
              /\ can_edit_customer(current_user, customers[c]) = Allow
              /\ can_delete_customer(current_user, customers[c]) = Allow
              /\ can_reassign_customer(current_user, customers[c]) = Allow
        /\ \A o \in DOMAIN opportunities :
              /\ can_view_opportunity(current_user, opportunities[o]) = Allow
              /\ can_approve_opportunity(current_user, opportunities[o]) = Allow
        /\ can_view_sensitive_data(current_user) = Allow
        /\ can_set_targets(current_user) = Allow
        /\ can_view_analytics(current_user) = Allow

\* an EXECUTIVE user, a customer of a unit without a row and an opportunity
\* of a unit outside the subtree of the user's unit
C3_Witness ==
    /\ SubjectIs({EXECUTIVE})
    /\ \E c \in DOMAIN customers :
          /\ customers[c].organizational_unit_id = AbsentUnit
          /\ can_delete_customer(current_user, customers[c]) = Allow
    /\ \E o \in DOMAIN opportunities :
          /\ opportunities[o].organizational_unit_id \in DOMAIN org_units
          /\ ~InSubtree(opportunities[o].organizational_unit_id, SubjectUnit)
          /\ can_approve_opportunity(current_user, opportunities[o]) = Allow

\* the rows of a table the claims' scope of the subject contains
ScopeOf(table) ==
    CASE SubjectLevel = EXECUTIVE -> DOMAIN table
      [] SubjectLevel = INDIVIDUAL ->
            {r \in DOMAIN table : table[r].owner_id = current_user}
      [] OTHER ->
            {r \in DOMAIN table :
                InSubtree(table[r].organizational_unit_id, SubjectUnit)}

\* C4: the listing of apply_access_filter over Customer and over Opportunity
\* holds every row for an EXECUTIVE, the rows the user owns for an
\* INDIVIDUAL, and the rows of the user's unit and its transitive
\* descendants for a REGIONAL or BRANCH user.
C4_ScopedListing ==
    is_authenticated(current_user) =>
        /\ apply_access_filter(current_user, "Customer") = ScopeOf(customers)
        /\ apply_access_filter(current_user, "Opportunity") = ScopeOf(opportunities)

\* an INDIVIDUAL user is listed a customer of another unit that the user
\* owns, and is not listed an opportunity of the user's unit that another
\* user owns
C4_Witness ==
    /\ SubjectIs({INDIVIDUAL})
    /\ \E c \in apply_customer_filter(current_user) :
          customers[c].organizational_unit_id # SubjectUnit
    /\ \E o \in DOMAIN opportunities :
          /\ opportunities[o].organizational_unit_id = SubjectUnit
          /\ o \notin apply_opportunity_filter(current_user)

\* C5: no row the single-record view check denies to the subject is in the
\* scoped listing the subject is given, for customers and for opportunities.
C5_ListingWithinView ==
    /\ \A c \in apply_customer_filter(current_user) :
          can_view_customer(current_user, customers[c]) = Allow
    /\ \A o \in apply_opportunity_filter(current_user) :
          can_view_opportunity(current_user, opportunities[o]) = Allow

\* C7: apply_task_filter gives an INDIVIDUAL user the tasks assigned to or
\* by the user, a REGIONAL or BRANCH user the tasks whose assignee or
\* assigner belongs to the user's unit or a descendant of it, and an
\* EXECUTIVE every task.
C7_TaskScope ==
    is_authenticated(current_user) =>
        apply_task_filter(current_user) =
            CASE SubjectLevel = EXECUTIVE -> DOMAIN tasks
              [] SubjectLevel = INDIVIDUAL ->
                    {t \in DOMAIN tasks : \/ tasks[t].assigned_to_id = current_user
                                          \/ tasks[t].assigned_by_id = current_user}
              [] OTHER ->
                    {t \in DOMAIN tasks :
                        \E u \in {tasks[t].assigned_to_id, tasks[t].assigned_by_id} :
                            InSubtree(users[u].organizational_unit_id, SubjectUnit)}

\* a REGIONAL or BRANCH user is listed a task whose assignee is outside the
\* user's subtree and whose assigner is in a unit below the user's own
C7_Witness ==
    /\ SubjectIs({REGIONAL, BRANCH})
    /\ \E t \in apply_task_filter(current_user) :
          /\ ~InSubtree(users[tasks[t].assigned_to_id].organizational_unit_id, SubjectUnit)
          /\ users[tasks[t].assigned_by_id].organizational_unit_id # SubjectUnit

\* C8: for an unauthenticated subject every check of AccessControl denies and
\* every scope helper yields nothing, whatever the tables hold; every one of
\* them returns a value.
C8_AnonymousDenied ==
    ~is_authenticated(current_user) =>
        /\ \A c \in DOMAIN customers :
              /\ can_view_customer(current_user, customers[c]) = Deny
              /\ can_edit_customer(current_user, customers[c]) = Deny
              /\ can_delete_customer(current_user, customers[c]) = Deny
              /\ can_reassign_customer(current_user, customers[c]) = Deny
        /\ \A o \in DOMAIN opportunities :
              /\ can_view_opportunity(current_user, opportunities[o]) = Deny
              /\ can_approve_opportunity(current_user, opportunities[o]) = Deny
        /\ can_view_sensitive_data(current_user) = Deny
        /\ can_set_targets(current_user) = Deny
        /\ can_view_analytics(current_user) = Deny
        /\ apply_access_filter(current_user, "Customer") = {}
        /\ apply_access_filter(current_user, "Opportunity") = {}
        /\ apply_task_filter(current_user) = {}
        /\ get_accessible_user_ids(current_user) = <<>>

\* a request whose session names no users row, the tables holding rows
C8_Witness ==
    /\ current_user = Anonymous
    /\ DOMAIN customers # {}
    /\ DOMAIN opportunities # {}
    /\ DOMAIN tasks # {}
    /\ \E u \in DOMAIN users : users[u].access_level = EXECUTIVE

-----------------------------------------------------------------------------
(* What a subject is authorized for among the targets: an EXECUTIVE every *)
(* target, an INDIVIDUAL the targets assigned to them, a REGIONAL or      *)
(* BRANCH user the targets assigned to a user or a unit of their subtree. *)
TargetInScope(cu, t) ==
    CASE users[cu].access_level = EXECUTIVE -> TRUE
      [] users[cu].access_level = INDIVIDUAL -> t.user_id = cu
      [] OTHER ->
            \/ /\ t.user_id \in DOMAIN users
               /\ InSubtree(users[t.user_id].organizational_unit_id,
                            users[cu].organizational_unit_id)
            \/ /\ t.organizational_unit_id # NULL
               /\ InSubtree(t.organizational_unit_id,
                            users[cu].organizational_unit_id)

\* C6: a record route returns or changes a record only after an
\* authorization check on that record succeeded: whenever the target view
\* or edit route has answered with the target's data or has changed it, the
\* target is one the requesting user is authorized for.
C6_TargetRoutesAuthorize ==
    /\ response.route \in {"targets.view", "targets.edit"}
    /\ response.status = "ok"
    => TargetInScope(current_user, targets[response.id])

\* C9: in every state reached by creating opportunities and applying
\* advance_stage, mark_won, mark_lost and edit, is_active is true if and
\* only if the stage is neither WON nor LOST.
C9_ActiveIffOpen ==
    \A id \in DOMAIN opportunities :
        opportunities[id].is_active <=> opportunities[id].stage \notin {WON, LOST}

\* C10: for every stage S of the probability table, after advance_stage(o, S)
\* has returned, o.probability = table[S] and
\* o.expected_revenue = o.amount * table[S] / 100.
C10_AdvanceStageTable ==
    [][\A id \in DOMAIN opportunities, S \in DOMAIN stage_probabilities :
          OppAdvanceStage(id, S) /\ response'.status = "ok"
          => /\ opportunities'[id].probability = stage_probabilities[S]
             /\ opportunities'[id].expected_revenue * 100 =
                    opportunities'[id].amount * stage_probabilities[S]]_vars

\* the active REVENUE targets of a user whose window contains today
RevenueTargetsOf(user_id) ==
    {t \in DOMAIN targets :
        /\ targets[t].target_type = REVENUE
        /\ targets[t].is_active
        /\ targets[t].user_id = user_id
        /\ targets[t].start_date <= now
        /\ targets[t].end_date >= now}

\* C11: whenever an opportunity enters stage WON, by the mark-won route or by
\* the advance-stage route, every active REVENUE target of the opportunity's
\* owner whose window contains today gets a TargetAchievement for that
\* opportunity and its achieved_value grows by the won revenue.
C11_WonUpdatesTargets ==
    [][\A id \in DOMAIN opportunities :
          opportunities[id].stage # WON /\ opportunities'[id].stage = WON
          => \A t \in RevenueTargetsOf(opportunities[id].owner_id) :
                /\ \E i \in (Len(achievements) + 1)..Len(achievements') :
                      /\ achievements'[i].target_id = t
                      /\ achievements'[i].opportunity_id = id
                /\ targets'[t].achieved_value =
                      targets[t].achieved_value + opportunities'[id].actual_revenue]_vars

\* C12: after an opportunity has entered WON, is_active is false, won_date
\* and actual_close_date are set, and actual_revenue equals amount when no
\* explicit actual revenue was given; after mark_won with an explicit
\* actual revenue r, 0 included, actual_revenue equals r.
C12_WonFields ==
    [][/\ \A amount_type \in AmountTypes :
             MethodAdvanceStage(WON, amount_type) /\ response'.status = "returned"
             => /\ ~opportunities'[1].is_active
                /\ opportunities'[1].won_date = now
                /\ opportunities'[1].actual_close_date = now
                /\ opportunities'[1].actual_revenue = opportunities'[1].amount
       /\ \A r \in FormRevenues, amount_type \in AmountTypes :
             MethodMarkWon(r, amount_type) /\ response'.status = "returned"
             => /\ ~opportunities'[1].is_active
                /\ opportunities'[1].won_date = now
                /\ opportunities'[1].actual_close_date = now
                /\ opportunities'[1].actual_revenue =
                      IF r = None THEN opportunities'[1].amount ELSE r]_vars

\* C13: over any sequence of Customer.advance_stage calls, each of
\* prospect_date, lead_date and customer_date is set the first time its
\* stage is reached and never changes afterwards, and no stage timestamp
\* that has been set is cleared.
C13_StageTimestampsSetOnce ==
    [][\A c \in DOMAIN customers :
          /\ customers[c].suspect_date # NULL
             => customers'[c].suspect_date = customers[c].suspect_date
          /\ customers[c].prospect_date # NULL
             => customers'[c].prospect_date = customers[c].prospect_date
          /\ customers[c].lead_date # NULL
             => customers'[c].lead_date = customers[c].lead_date
          /\ customers[c].customer_date # NULL
             => customers'[c].customer_date = customers[c].customer_date]_vars

\* C14: once a task's status is COMPLETED or CANCELLED, no operation
\* changes its status again.
C14_TerminalStatus ==
    [][\A t \in DOMAIN tasks :
          tasks[t].status \in {"COMPLETED", "CANCELLED"}
          => tasks'[t].status = tasks[t].status]_vars

\* C15: complete() on a task that is already COMPLETED is rejected or
\* changes no field of the task, and never puts it back to PENDING.
C15_CompleteOnCompleted ==
    [][\A id \in DOMAIN tasks :
          TaskComplete(id) /\ tasks[id].status = "COMPLETED"
          => /\ tasks'[id].status = tasks[id].status
             /\ tasks'[id].completed_date = tasks[id].completed_date
             /\ tasks'[id].is_overdue = tasks[id].is_overdue]_vars

\* C16: check_overdue changes a task only when its status is neither
\* COMPLETED nor CANCELLED and due_date < now, and then sets is_overdue and
\* status = OVERDUE; a second check of the result changes nothing.
C16_CheckOverdue ==
    \A t \in DOMAIN tasks :
        LET before == tasks[t]
            after == check_overdue(before)
        IN /\ IF before.status \notin {"COMPLETED", "CANCELLED"} /\ before.due_date < now
              THEN /\ after.is_overdue
                   /\ after.status = "OVERDUE"
                   /\ [after EXCEPT !.is_overdue = before.is_overdue,
                                    !.status = before.status] = before
              ELSE after = before
           /\ check_overdue(after) = after

\* a task that became overdue by the check of the task list
C16_Witness ==
    /\ response.route = "activities.tasks"
    /\ \E t \in DOMAIN tasks :
          /\ tasks[t].status = "OVERDUE"
          /\ tasks[t].is_overdue
          /\ tasks[t].due_date = 2

\* C17: escalate(task, u) increases escalation_level by exactly 1, sets
\* escalated_to_id = u and escalation_date = now, leaves status, is_overdue
\* and completed_date unchanged, may be repeated, and escalation_level
\* never decreases over any sequence of operations.
C17_Escalate ==
    [][/\ \A id \in DOMAIN tasks, u \in FormEscalateTo :
             TaskEscalate(id, u) /\ response'.status = "ok"
             => /\ tasks'[id].escalation_level = tasks[id].escalation_level + 1
                /\ tasks'[id].escalated_to_id = u
                /\ tasks'[id].escalation_date = now
                /\ tasks'[id].status = tasks[id].status
                /\ tasks'[id].is_overdue = tasks[id].is_overdue
                /\ tasks'[id].completed_date = tasks[id].completed_date
       /\ \A t \in DOMAIN tasks :
             tasks'[t].escalation_level >= tasks[t].escalation_level]_vars

\* a task escalated twice in a row
C17_Witness ==
    /\ response.route = "activities.escalate_task"
    /\ response.status = "ok"
    /\ tasks[response.id].escalation_level = 3

C19_AuditFailureSwallowed == response.status # "audit_error"

\* C20: when advance_stage, mark_won or mark_lost fails while computing a
\* derived field, the record keeps all of its fields at their values from
\* before the call.
C20_FailedTransitionKeepsRecord ==
    [][\A id \in DOMAIN opportunities :
          /\ response'.route \in {"opportunities.advance_stage",
                                  "opportunities.mark_won",
                                  "opportunities.mark_lost"}
          /\ response'.id = id
          /\ response'.status \in {"error", "raised"}
          => opportunities'[id] = opportunities[id]]_vars

\* C21: AuditLog entries are only ever appended: every entry of a state is
\* an entry of every later state, with all of its fields unchanged.
C21_AuditAppendOnly ==
    [][/\ Len(audit_logs') >= Len(audit_logs)
       /\ SubSeq(audit_logs', 1, Len(audit_logs)) = audit_logs]_vars

\* entries written by several requests
C21_Witness ==
    /\ Len(audit_logs) >= 3
    /\ audit_logs[1].action = "login"
    /\ audit_logs[Len(audit_logs)].resource_type = "opportunity"

\* C22: a function wrapped by sensitive_data_access and called by an
\* authenticated user produces a 'view_sensitive' audit entry on every
\* invocation, also when the wrapped function raises.
C22_SensitiveAlwaysAudited ==
    [][\A raises \in BOOLEAN :
          SensitiveDataAccess(raises)
          => /\ Len(audit_logs') = Len(audit_logs) + 1
             /\ audit_logs'[Len(audit_logs')].action = "view_sensitive"]_vars

\* C23: in every state reached by target creation, the edit of
\* target_value, update_achievement and calculate_achievement, a target
\* with target_value <= 0 has achievement_percentage = 0, and a target with
\* target_value > 0 has achievement_percentage = achieved_value /
\* target_value * 100.
C23_AchievementPercentage ==
    \A t \in DOMAIN targets :
        IF targets[t].target_value <= 0
        THEN PctEq(targets[t].achievement_percentage, Pct(0, 1))
        ELSE PctEq(targets[t].achievement_percentage,
                   Pct(targets[t].achieved_value * 100, targets[t].target_value))

\* C24: calculate_qualification_score stores and returns the sum of the
\* points of the signals that hold: 10 for an email, 10 for any phone, 20
\* for estimated assets, 20 for a credit score above 600, 20 for a last
\* contact within 7 days or 10 within 30 days, 20 for at least one active
\* opportunity; the result is within 0..100.  A signal is present when its
\* column holds a non-empty, non-zero value.
C24_QualificationScore ==
    [][\A id \in DOMAIN customers :
          QualificationScore(id) =>
              LET c == customers[id]
                  Points(holds, n) == IF holds THEN n ELSE 0
                  recent(d) == c.last_contact_date # NULL /\ now - c.last_contact_date < d
                  expected ==
                      Points(c.email # "", 10)
                      + Points(c.mobile # "" \/ c.phone # "", 10)
                      + Points(c.estimated_assets \notin {None, 0}, 20)
                      + Points(c.credit_score # None /\ c.credit_score > 600, 20)
                      + Points(recent(7), 20)
                      + Points(~recent(7) /\ recent(30), 10)
                      + Points(\E o \in DOMAIN opportunities :
                                  /\ opportunities[o].customer_id = id
                                  /\ opportunities[o].is_active, 20)
              IN /\ customers'[id].qualification_score = expected
                 /\ response'.value = expected
                 /\ expected \in 0..100]_vars

\* the score of a customer with a credit score of exactly 600 and a last
\* contact 7 days ago
C24_Witness ==
    /\ response.route = "Customer.calculate_qualification_score"
    /\ customers[1].credit_score = 600
    /\ now - customers[1].last_contact_date = 7
    /\ customers[1].email # ""
    /\ customers[1].qualification_score = 20

\* C25: in a forest of units, get_all_children returns exactly the
\* transitive descendants of the unit, each once and never the unit itself,
\* and get_hierarchy_path returns the chain from the root to the unit, a
\* unit whose parent_id has no row being a root.
C25_HierarchyWalks ==
    /\ response.route = "OrganizationalUnit.get_all_children" =>
          LET v == response.value
          IN /\ Range(v) = {d \in DOMAIN org_units : response.id \in AncestorsOf(d)}
             /\ Cardinality(Range(v)) = Len(v)
             /\ response.id \notin Range(v)
    /\ response.route = "OrganizationalUnit.get_hierarchy_path" =>
          LET v == response.value
          IN /\ Len(v) >= 1
             /\ v[Len(v)] = response.id
             /\ org_units[v[1]].parent_id \notin DOMAIN org_units
             /\ \A i \in 1..(Len(v) - 1) : org_units[v[i + 1]].parent_id = v[i]

\* the path of a grandchild whose root has a parent_id without a row
C25_Witness ==
    /\ response.route = "OrganizationalUnit.get_hierarchy_path"
    /\ Len(response.value) = 3
    /\ org_units[response.value[1]].parent_id = AbsentUnit

\* C26: when the business operation of an audited route fails before its
\* own commit, by an exception that propagates or by an error the route
\* catches, no mutation of a record becomes durable: the commit of
\* log_action stores the audit entry and nothing else.
C26_FailureStoresOnlyAudit ==
    [][response'.status \in {"error", "raised"}
       => /\ customers' = customers
          /\ opportunities' = opportunities
          /\ targets' = targets
          /\ achievements' = achievements
          /\ tasks' = tasks]_vars

\* C27: however many times mark-won is requested for an opportunity, there
\* is at most one TargetAchievement per target and opportunity, and the
\* target's achieved_value has been increased for it at most once.
C27_OneAchievementPerWin ==
    \A i, j \in DOMAIN achievements :
        /\ achievements[i].target_id = achievements[j].target_id
        /\ achievements[i].opportunity_id = achievements[j].opportunity_id
        => i = j

\* C29: the complete-task route changes a task only when the requester is
\* the task's assignee and the task is in the requester's task scope, and
\* then its status is COMPLETED; a request of any other user, an EXECUTIVE
\* and the assigner included, leaves every field of every task unchanged.
C29_OnlyAssigneeCompletes ==
    [][\A id \in 1..2 :
          TaskComplete(id) =>
              IF /\ id \in DOMAIN tasks
                 /\ tasks[id].assigned_to_id = current_user
                 /\ \/ SubjectLevel \in {EXECUTIVE, INDIVIDUAL}
                    \/ InSubtree(users[tasks[id].assigned_to_id].organizational_unit_id,
                                 SubjectUnit)
                    \/ InSubtree(users[tasks[id].assigned_by_id].organizational_unit_id,
                                 SubjectUnit)
              THEN tasks'[id].status = "COMPLETED"
              ELSE tasks' = tasks]_vars

\* an EXECUTIVE who is not the assignee is refused on an open task
C29_Witness ==
    /\ response.route = "activities.complete_task"
    /\ response.status = "denied"
    /\ SubjectIs({EXECUTIVE})
    /\ tasks[response.id].assigned_to_id # current_user
    /\ tasks[response.id].status = "PENDING"

RECURSIVE SumAchieved(_, _)
\* the sum of achieved_value over the TargetAchievement rows of a target
SumAchieved(rows, t) ==
    IF rows = <<>> THEN 0
    ELSE (IF Head(rows).target_id = t THEN Head(rows).achieved_value ELSE 0)
         + SumAchieved(Tail(rows), t)

\* C28: after two concurrent mark-won requests of a user for two different
\* opportunities have both committed, each active REVENUE target of the
\* user has a TargetAchievement of the won revenue for each of the two
\* opportunities, and its achieved_value is its initial value (0 for a
\* target as created) plus the sum of its TargetAchievement rows: no
\* increment is lost.
C28_NoLostIncrement ==
    \A p, q \in DOMAIN in_flight :
        /\ p # q
        /\ in_flight[p].done /\ in_flight[q].done
        /\ ~in_flight[p].refused /\ ~in_flight[q].refused
        /\ in_flight[p].id # in_flight[q].id
        /\ in_flight[p].user = in_flight[q].user
        => \A t \in RevenueTargetsOf(in_flight[p].user) :
              /\ \A r \in {p, q} :
                    \E i \in DOMAIN achievements :
                        /\ achievements[i].target_id = t
                        /\ achievements[i].opportunity_id = in_flight[r].id
                        /\ achievements[i].achieved_value =
                               opportunities[in_flight[r].id].actual_revenue
              /\ targets[t].achieved_value = 0 + SumAchieved(achievements, t)

====
